---- MODULE Spec2Model ----
(***************************************************************************)
(* Hourly FAO-56 / ASCE Penman-Monteith reference evapotranspiration:      *)
(* the day/night classifier (_infer_daytime), the solar elevation it uses  *)
(* (_solar_elevation_deg), the hourly formula (eto_hourly_fao56_asce_row)  *)
(* and the batch run with its daily sums (compute_eto_hourly_and_daily).   *)
(*                                                                         *)
(* Number representation.  Python floats are modelled as scaled integers:  *)
(*   angles            centidegrees (1/100 degree)                         *)
(*   sines, cosines    1/10000                                             *)
(*   latitude, longitude   tenths of a degree                              *)
(*   Rn                tenths of MJ m-2 h-1                                *)
(*   delta             hundredths of kPa/C                                 *)
(*   gamma             thousandths of kPa/C                                *)
(*   es, ea            tenths of kPa                                       *)
(*   ETo               thousandths of mm/h, rounded down                   *)
(* An optional float is a record [k, v]: k = "none" (None), "fin" (a       *)
(* finite value v), "inf" (v = 1 or -1) or "nan".                          *)
(***************************************************************************)
EXTENDS Integers, Sequences, FiniteSets, TLC

VARIABLES pc, args, ret, df, Rn_MJ_m2_h, vals, daily

vars == <<pc, args, ret, df, Rn_MJ_m2_h, vals, daily>>

----------------------------------------------------------------------------
(* Values *)

None == [k |-> "none", v |-> 0]
Fin(x) == [k |-> "fin", v |-> x]
PosInf == [k |-> "inf", v |-> 1]
NaN == [k |-> "nan", v |-> 0]

\* A datetime of the year 2023: day of year, hour, minute (second 0).
DateTime(J, h, m) == [k |-> "dt", doy |-> J, hour |-> h, minute |-> m]
\* pandas.NaT: timetuple() raises ValueError, hour is nan.
NaT == [k |-> "nat", doy |-> 0, hour |-> 0, minute |-> 0]
NoTimestamp == [k |-> "none", doy |-> 0, hour |-> 0, minute |-> 0]

NoValue == [k |-> "none"]

----------------------------------------------------------------------------
(* math.sin, math.cos, math.acos on scaled integers *)

\* 10000 * sin(d degrees), d = 0..90
SinTab ==
    << 0, 175, 349, 523, 698, 872, 1045, 1219, 1392, 1564, 1736, 1908, 2079,
       2250, 2419, 2588, 2756, 2924, 3090, 3256, 3420, 3584, 3746, 3907, 4067, 4226,
       4384, 4540, 4695, 4848, 5000, 5150, 5299, 5446, 5592, 5736, 5878, 6018, 6157,
       6293, 6428, 6561, 6691, 6820, 6947, 7071, 7193, 7314, 7431, 7547, 7660, 7771,
       7880, 7986, 8090, 8192, 8290, 8387, 8480, 8572, 8660, 8746, 8829, 8910, 8988,
       9063, 9135, 9205, 9272, 9336, 9397, 9455, 9511, 9563, 9613, 9659, 9703, 9744,
       9781, 9816, 9848, 9877, 9903, 9925, 9945, 9962, 9976, 9986, 9994, 9998, 10000 >>

\* sine of r centidegrees, 0 <= r <= 9000, linear between whole degrees
SinQ(r) ==
    LET d == r \div 100
        f == r % 100
    IN  IF d = 90 THEN SinTab[91]
        ELSE SinTab[d + 1] + ((SinTab[d + 2] - SinTab[d + 1]) * f) \div 100

\* math.sin of c centidegrees, scaled by 10000
Sin(c) ==
    LET a == c % 36000
        neg == a >= 18000
        b == IF neg THEN a - 18000 ELSE a
        r == IF b > 9000 THEN 18000 - b ELSE b
    IN  IF neg THEN 0 - SinQ(r) ELSE SinQ(r)

\* math.cos of c centidegrees, scaled by 10000
Cos(c) == Sin(c + 9000)

\* 90 - degrees(acos(s / 10000)) in centidegrees, -10000 <= s <= 10000
ElevationOfCosZenith(s) ==
    LET a == IF s < 0 THEN 0 - s ELSE s
        d == CHOOSE k \in 0..90 :
                /\ SinTab[k + 1] <= a
                /\ \A j \in 0..90 : SinTab[j + 1] <= a => j <= k
        e == IF d = 90 THEN 9000
             ELSE d * 100 + ((a - SinTab[d + 1]) * 100) \div (SinTab[d + 2] - SinTab[d + 1])
    IN  IF s < 0 THEN 0 - e ELSE e

Max(a, b) == IF a >= b THEN a ELSE b
Min(a, b) == IF a <= b THEN a ELSE b

----------------------------------------------------------------------------
(* _solar_elevation_deg *)

\* The float kind of 4.0 * longitude - 60.0 * tz_offset (eqtime is finite).
TimeOffsetKind(lon, tz) ==
    IF lon.k = "nan" \/ tz.k = "nan" THEN "nan"
    ELSE IF lon.k = "inf" /\ tz.k = "inf"
         THEN (IF lon.v = tz.v THEN "nan" ELSE "inf")
    ELSE IF lon.k = "inf" \/ tz.k = "inf" THEN "inf"
    ELSE "fin"

\* The elevation for finite arguments, in centidegrees.
FiniteElevation(ts, lat10, lon10, tzh) ==
    LET fh == 60 * ts.hour + ts.minute
        \* gamma = 2 pi / 365 * (J - 1 + (fractional_hour - 12) / 24)
        g == ((1440 * (ts.doy - 1) + fh - 720) * 5) \div 73
        s5 == (75 * 10000 + 1868 * Cos(g) - 32077 * Sin(g)
                 - 14615 * Cos(2 * g) - 40849 * Sin(2 * g)) \div 100000
        \* eqtime in hundredths of a minute
        eqtime == (22918 * s5) \div 100000
        d9 == 692 * 10000 - 39991 * Cos(g) + 7026 * Sin(g)
                 - 676 * Cos(2 * g) + 91 * Sin(2 * g)
                 - 270 * Cos(3 * g) + 148 * Sin(3 * g)
        \* decl converted from radians to centidegrees
        decl == d9 \div 174533
        time_offset == eqtime + 40 * lon10 - 6000 * tzh
        tst == fh * 100 + time_offset
        ha == (tst \div 4) - 18000
        lat == lat10 * 10
        cos_zenith == Sin(lat) * Sin(decl)
                        + ((Cos(lat) * Cos(decl)) \div 10000) * Cos(ha)
        clamped == Max(0 - 100000000, Min(100000000, cos_zenith))
    IN  ElevationOfCosZenith(clamped \div 10000)

\* The outcome of _solar_elevation_deg: a fault (an exception) or an elevation.
\*   ts.timetuple() raises on NaT; math.sin / math.cos raise ValueError on an
\*   infinite argument; a nan propagates to cos_zenith, and
\*   max(-1.0, min(1.0, nan)) is 1.0, so the elevation is 90 degrees.
solar_elevation_deg(ts, lat, lon, tz) ==
    IF ts.k # "dt" THEN [fault |-> TRUE, elev |-> 0]
    ELSE IF lat.k = "inf" \/ TimeOffsetKind(lon, tz) = "inf"
         THEN [fault |-> TRUE, elev |-> 0]
    ELSE IF lat.k = "nan" \/ TimeOffsetKind(lon, tz) = "nan"
         THEN [fault |-> FALSE, elev |-> 9000]
    ELSE [fault |-> FALSE, elev |-> FiniteElevation(ts, lat.v, lon.v, tz.v)]

----------------------------------------------------------------------------
(* _infer_daytime *)

\* Variant: the end hour counted as inside the window.
InWindowEndInclusive(ts, win) ==
    /\ ts.k = "dt"
    /\ win[1] <= ts.hour
    /\ ts.hour <= win[2]

\* start_h <= hour < end_h; NaT.hour is nan and every comparison with it is False
InWindow(ts, win) ==
    /\ ts.k = "dt"
    /\ win[1] <= ts.hour
    /\ ts.hour < win[2]

\* The outcome of _infer_daytime is a record: the boolean returned (day), the
\* tier that returned it (1 Rn sign, 2 no timestamp, 3 solar elevation, 4 hour
\* window), how the solar estimate ended ("skipped", "ok", "fault"), and
\* whether an exception left the function (raised).
Outcome(d, t, s) == [raised |-> FALSE, day |-> d, tier |-> t, solar |-> s]
Raised == [raised |-> TRUE, day |-> FALSE, tier |-> 0, solar |-> "fault"]

\* start_h, end_h = daytime_hours; return (start_h <= hour < end_h)
window_tier(ts, win, solar) == Outcome(InWindow(ts, win), 4, solar)

\* Variant: the elevation test combined with the hour window.
solar_tier_and_window(ts, lat, lon, tz, win) ==
    LET s == solar_elevation_deg(ts, lat, lon, tz)
    IN  IF ~s.fault
        THEN Outcome((s.elev > 0) /\ InWindow(ts, win), 3, "ok")
        ELSE window_tier(ts, win, "fault")

\* Variant: no except clause, a fault of the estimate leaves the function.
solar_tier_no_except(ts, lat, lon, tz, win) ==
    LET s == solar_elevation_deg(ts, lat, lon, tz)
    IN  IF ~s.fault THEN Outcome(s.elev > 0, 3, "ok") ELSE Raised

\* try: elev = _solar_elevation_deg(...); return elev > 0.0
\* except Exception: pass, and on to the hour window
solar_tier(ts, lat, lon, tz, win) ==
    LET s == solar_elevation_deg(ts, lat, lon, tz)
    IN  IF ~s.fault
        THEN Outcome(s.elev > 0, 3, "ok")
        ELSE window_tier(ts, win, "fault")

HasLocation(lat, lon, tz) == lat.k # "none" /\ lon.k # "none" /\ tz.k # "none"

\* what _infer_daytime does once Rn > 0 has failed
timestamp_tiers(ts, lat, lon, tz, win) ==
    IF ts.k = "none" THEN Outcome(FALSE, 2, "skipped")
    ELSE IF HasLocation(lat, lon, tz) THEN solar_tier(ts, lat, lon, tz, win)
    ELSE window_tier(ts, win, "skipped")

\* Variant: the Rn > 0 test left out.
infer_daytime_no_rn_tier(Rn, ts, lat, lon, tz, win) ==
    timestamp_tiers(ts, lat, lon, tz, win)

infer_daytime(Rn, ts, lat, lon, tz, win) ==
    IF Rn > 0 THEN Outcome(TRUE, 1, "skipped")
    ELSE timestamp_tiers(ts, lat, lon, tz, win)

----------------------------------------------------------------------------
(* Calls of the classifier *)

RnValues == {-5, 0, 10}
DaysOfYear == {172, 355}
Hours == 0..23
Minutes == {0, 30}
Timestamps ==
    {NoTimestamp, NaT}
      \cup {DateTime(J, h, m) : J \in DaysOfYear, h \in Hours, m \in Minutes}
Latitudes == {None, Fin(365), Fin(-700), PosInf, NaN}
Longitudes == {None, Fin(-1195), PosInf}
TzOffsets == {None, Fin(-8), Fin(0)}
Windows == {<<6, 20>>, <<9, 17>>, <<20, 6>>}

ClassifyArgs ==
    [Rn : RnValues, ts : Timestamps, lat : Latitudes, lon : Longitudes,
     tz : TzOffsets, win : Windows]

InitClassify ==
    /\ pc = "call"
    /\ args \in ClassifyArgs
    /\ ret = NoValue
    /\ df = NoValue
    /\ Rn_MJ_m2_h = << >>
    /\ vals = << >>
    /\ daily = NoValue

CallInferDaytime ==
    /\ pc = "call"
    /\ ret' = infer_daytime(args.Rn, args.ts, args.lat, args.lon, args.tz, args.win)
    /\ pc' = "done"
    /\ UNCHANGED <<args, df, Rn_MJ_m2_h, vals, daily>>

NextClassify == CallInferDaytime

SpecClassify == InitClassify /\ [][NextClassify]_vars

----------------------------------------------------------------------------
(* eto_hourly_fao56_asce_row *)

\* Optional[bool]
NoBool == [k |-> "none", b |-> FALSE]
Bool(b) == [k |-> "bool", b |-> b]

\* An explicit is_daytime: no tier of the classifier runs (tier 0).
Explicit(b) == [raised |-> FALSE, day |-> b, tier |-> 0, solar |-> "skipped"]

\* Variant: an explicit is_daytime ignored.
resolve_daytime_always_infer(is_daytime, Rn, ts, lat, lon, tz, win) ==
    infer_daytime(Rn, ts, lat, lon, tz, win)

\* if is_daytime is None: is_daytime = _infer_daytime(...)
resolve_daytime(is_daytime, Rn, ts, lat, lon, tz, win) ==
    IF is_daytime.k = "none"
    THEN infer_daytime(Rn, ts, lat, lon, tz, win)
    ELSE Explicit(is_daytime.b)

\* ASCE Table 8-1: <<Cn, 100 * Cd, 100 * G_over_Rn>>; every reference other
\* than "short" takes the else branch.
coefficients(reference, is_daytime) ==
    IF reference = "short"
    THEN (IF is_daytime THEN <<37, 24, 10>> ELSE <<37, 96, 50>>)
    ELSE (IF is_daytime THEN <<66, 25, 4>> ELSE <<66, 170, 20>>)

\* floor(s * n / d) for d > 0, without forming s * n
FloorScaled(n, d, s) == s * (n \div d) + (s * (n % d)) \div d

\* Variant: the value returned without max(0.0, .).
clamp_missing(et0) == et0

\* max(0.0, et0)
clamp(et0) == Max(0, et0)

\* Lines 151-159 on scaled integers: Rn in tenths, es and ea in tenths, delta
\* in hundredths, gamma in thousandths, u2 and T_C whole.
\*   num_rad  = A / 12500000          A = 51 * delta * Rn * (100 - 100 G_over_Rn)
\*   num_aero = B / (10000 * (T+273)) B = gamma * Cn * u2 * (es - ea)
\*   den      = DEN / 100000          DEN = 1000 delta + gamma (100 + 100 Cd u2)
\*   et0      = N / (125 * D)         N = A (T+273) + 1250 B,  D = (T+273) DEN
\* Division by zero (T_C = -273, or den = 0) raises ZeroDivisionError.
\* raw and et0 are in thousandths of mm/h, rounded down.
penman_monteith(Rn, T_C, u2, es, ea, delta, gamma, coef) ==
    LET TK == T_C + 273
        A == 51 * delta * Rn * (100 - coef[3])
        B == gamma * coef[1] * u2 * (es - ea)
        DEN == 1000 * delta + gamma * (100 + coef[2] * u2)
        N == A * TK + 1250 * B
        D == TK * DEN
        raw == IF D > 0 THEN FloorScaled(N, D, 8) ELSE FloorScaled(0 - N, 0 - D, 8)
    IN  IF TK = 0 \/ DEN = 0
        THEN [raised |-> TRUE, raw |-> 0, et0 |-> 0]
        ELSE [raised |-> FALSE, raw |-> raw, et0 |-> clamp(raw)]

\* The outcome of eto_hourly_fao56_asce_row: the classification used (cls), the
\* coefficients selected (coef), whether an exception left the function
\* (raised), the value before the clamp (raw) and the value returned (et0).
eto_hourly_fao56_asce_row(Rn, T_C, u2, es, ea, delta, gamma, reference, is_daytime, ts, lat, lon, tz, win) ==
    LET cls == resolve_daytime(is_daytime, Rn, ts, lat, lon, tz, win)
        coef == coefficients(reference, cls.day)
        pm == penman_monteith(Rn, T_C, u2, es, ea, delta, gamma, coef)
    IN  IF cls.raised
        THEN [raised |-> TRUE, cls |-> cls, coef |-> << >>, raw |-> 0, et0 |-> 0]
        ELSE [raised |-> pm.raised, cls |-> cls, coef |-> coef,
              raw |-> pm.raw, et0 |-> pm.et0]

----------------------------------------------------------------------------
(* Calls of the hourly calculator *)

RowTimestamps == {NoTimestamp, NaT, DateTime(172, 5, 0), DateTime(355, 18, 0)}
RowLocations ==
    { [lat |-> None, lon |-> None, tz |-> None],
      [lat |-> Fin(365), lon |-> Fin(-1195), tz |-> Fin(-8)],
      [lat |-> PosInf, lon |-> Fin(-1195), tz |-> Fin(-8)] }
RowWindows == {<<6, 20>>, <<9, 17>>}
References == {"short", "tall", "grass"}

RowArgs ==
    [Rn : RnValues, T_C : {25, -273}, u2 : {0, 2}, es : {10, 30}, ea : {15},
     delta : {0, 19}, gamma : {0, 66}, reference : References,
     is_daytime : {NoBool, Bool(TRUE), Bool(FALSE)},
     ts : RowTimestamps, loc : RowLocations, win : RowWindows]

InitRow ==
    /\ pc = "call"
    /\ args \in RowArgs
    /\ ret = NoValue
    /\ df = NoValue
    /\ Rn_MJ_m2_h = << >>
    /\ vals = << >>
    /\ daily = NoValue

CallEtoRow ==
    /\ pc = "call"
    /\ ret' = eto_hourly_fao56_asce_row(
                 args.Rn, args.T_C, args.u2, args.es, args.ea, args.delta,
                 args.gamma, args.reference, args.is_daytime, args.ts,
                 args.loc.lat, args.loc.lon, args.loc.tz, args.win)
    /\ pc' = "done"
    /\ UNCHANGED <<args, df, Rn_MJ_m2_h, vals, daily>>

NextRow == CallEtoRow

SpecRow == InitRow /\ [][NextRow]_vars

----------------------------------------------------------------------------
(* compute_eto_hourly_and_daily *)

\* The longest input frame of the model.
MaxRows == 3

\* A row of the input frame: its index entry (ts) and its columns, in the
\* units of the module; Rn_Wm2 is in W m-2.
Met(rn, es, de, ga) ==
    [Rn_Wm2 |-> rn, T_C |-> 25, U2_ms |-> 2, es_kPa |-> es, ea_kPa |-> 15,
     Delta_kPa_per_C |-> de, gamma_kPa_per_C |-> ga]
IndexValues == {DateTime(172, 5, 0), DateTime(172, 22, 0), DateTime(174, 12, 0)}
FrameRows ==
    [ts : IndexValues, met : {Met(250, 30, 19, 66), Met(0, 30, 19, 66)}]
      \cup {[ts |-> DateTime(174, 12, 0), met |-> Met(0, 30, 0, 0)]}

BatchLocations ==
    { [lat |-> None, lon |-> None, tz |-> None],
      [lat |-> Fin(365), lon |-> Fin(-1195), tz |-> Fin(-8)] }

BatchArgs ==
    [df : UNION {[1..n -> FrameRows] : n \in 0..MaxRows},
     reference : {"short", "tall"}, loc : BatchLocations, win : {<<6, 20>>}]

\* A DataFrame object: its rows and its 'PM-ETo_hourly_mm' column (empty
\* when the frame has no such column).
Frame(rows) == [rows |-> rows, hourly |-> << >>]

\* The frame objects of the run: obj[1] is the caller's frame, ref is the
\* object the local name df is bound to.
LocalFrame == df.obj[df.ref]

\* df = df.copy()
DfCopy(d) == [obj |-> Append(d.obj, d.obj[d.ref]), ref |-> Len(d.obj) + 1]

\* df['Rn_Wm2'] * 0.0036, in tenths of MJ m-2 h-1 (exact on multiples of 250)
RnSeries(rows) == [i \in 1..Len(rows) |-> (rows[i].met.Rn_Wm2 * 36) \div 1000]

\* Variant: Rn taken from the previous row (iloc[i - 1], wrapping at row 0).
RowCallPreviousRn(i) ==
    [Rn |-> Rn_MJ_m2_h[IF i = 1 THEN Len(Rn_MJ_m2_h) ELSE i - 1],
     row |-> LocalFrame.rows[i]]

\* The arguments of the call for row i (0-based i - 1 in the code).
RowCall(i) == [Rn |-> Rn_MJ_m2_h[i], row |-> LocalFrame.rows[i]]

\* eto_hourly_fao56_asce_row(Rn_MJ_m2_h=..., ..., is_daytime=None,
\* timestamp=df.index[i].to_pydatetime(), ...)
EvalCall(c) ==
    eto_hourly_fao56_asce_row(
        c.Rn, c.row.met.T_C, c.row.met.U2_ms, c.row.met.es_kPa, c.row.met.ea_kPa,
        c.row.met.Delta_kPa_per_C, c.row.met.gamma_kPa_per_C, args.reference,
        NoBool, c.row.ts, args.loc.lat, args.loc.lon, args.loc.tz, args.win)

RECURSIVE SumOnDay(_, _, _, _)
\* the sum of hourly[1..n] over the rows whose date is d
SumOnDay(rows, hourly, d, n) ==
    IF n = 0 THEN 0
    ELSE SumOnDay(rows, hourly, d, n - 1)
           + (IF rows[n].ts.doy = d THEN hourly[n] ELSE 0)

\* Series.resample('D').sum(): one bin for every day from the first date of
\* the index to the last, the sum of an empty bin being 0; no bin for an
\* empty frame.
resample_D_sum(rows, hourly) ==
    IF Len(rows) = 0 THEN [d \in {} |-> 0]
    ELSE LET days == {rows[i].ts.doy : i \in 1..Len(rows)}
             first == CHOOSE d \in days : \A e \in days : d <= e
             last == CHOOSE d \in days : \A e \in days : e <= d
         IN  [d \in first..last |-> SumOnDay(rows, hourly, d, Len(rows))]

InitBatch ==
    /\ pc = "start"
    /\ args \in BatchArgs
    /\ ret = NoValue
    /\ df = [obj |-> <<Frame(args.df)>>, ref |-> 1]
    /\ Rn_MJ_m2_h = << >>
    /\ vals = << >>
    /\ daily = NoValue

\* Lines 173-174: the Rn series of the caller's frame, then df = df.copy().
BatchStart ==
    /\ pc = "start"
    /\ Rn_MJ_m2_h' = RnSeries(LocalFrame.rows)
    /\ df' = DfCopy(df)
    /\ pc' = "loop"
    /\ UNCHANGED <<args, ret, vals, daily>>

\* One iteration of the list comprehension of lines 176-194: an exception of
\* the call leaves compute_eto_hourly_and_daily.
EvalRow ==
    /\ pc = "loop"
    /\ Len(vals) < Len(LocalFrame.rows)
    /\ LET out == EvalCall(RowCall(Len(vals) + 1))
       IN  IF out.raised
           THEN /\ pc' = "raised"
                /\ ret' = [k |-> "ZeroDivisionError"]
                /\ vals' = << >>
           ELSE /\ pc' = "loop"
                /\ ret' = ret
                /\ vals' = Append(vals, out)
    /\ UNCHANGED <<args, df, Rn_MJ_m2_h, daily>>

\* The assignment of the column (line 176) and lines 196-198.
AssignAndResample ==
    /\ pc = "loop"
    /\ Len(vals) = Len(LocalFrame.rows)
    /\ LET hourly == [i \in 1..Len(vals) |-> vals[i].et0]
       IN  /\ df' = [df EXCEPT !.obj[df.ref].hourly = hourly]
           /\ daily' = resample_D_sum(LocalFrame.rows, hourly)
    /\ ret' = [k |-> "returned"]
    /\ pc' = "returned"
    /\ UNCHANGED <<args, Rn_MJ_m2_h, vals>>

NextBatch == BatchStart \/ EvalRow \/ AssignAndResample

SpecBatch == InitBatch /\ [][NextBatch]_vars

----------------------------------------------------------------------------
(* Properties of the classifier, checked under SpecClassify *)

ClassifierReturned == pc = "done" /\ ~ret.raised

SolarOfArgs == solar_elevation_deg(args.ts, args.lat, args.lon, args.tz)

HourInArgsWindow == args.win[1] <= args.ts.hour /\ args.ts.hour < args.win[2]

\* C1: every call of _infer_daytime with Rn > 0 returns True (day), whatever
\* the timestamp, the location and the hour window are.
C1_RnPositiveIsDay ==
    (pc = "done" /\ args.Rn > 0) => (~ret.raised /\ ret.day = TRUE)

\* Rn > 0 at an hour outside the window with the sun below the horizon: day.
C1_Witness ==
    /\ ClassifierReturned
    /\ args.Rn > 0
    /\ args.ts.k = "dt"
    /\ ~HourInArgsWindow
    /\ args.lat.k = "fin" /\ args.lon.k = "fin" /\ args.tz.k = "fin"
    /\ SolarOfArgs.elev < 0
    /\ ret.day

\* C2: with Rn <= 0, a timestamp and a complete location, whenever the solar
\* estimate succeeds the result is day exactly when the elevation is > 0
\* degrees, returned by the solar tier without consulting the hour window.
\* At latitude 36.5, longitude -119.5, UTC-8: noon of 21 June is day, 05:00 of
\* 21 June (outside every window) is day, 18:00 of 21 December (inside
\* (6, 20)) is night.
C2_SolarElevationDecides ==
    /\ (/\ pc = "done"
        /\ args.Rn <= 0
        /\ args.ts.k # "none"
        /\ HasLocation(args.lat, args.lon, args.tz)
        /\ ~SolarOfArgs.fault)
         => (/\ ~ret.raised
             /\ ret.tier = 3
             /\ ret.day = (SolarOfArgs.elev > 0))
    /\ (/\ pc = "done"
        /\ args.Rn <= 0
        /\ args.lat = Fin(365) /\ args.lon = Fin(-1195) /\ args.tz = Fin(-8))
         => (/\ args.ts = DateTime(172, 12, 0) => ret.day
             /\ args.ts = DateTime(172, 5, 0) => ret.day
             /\ args.ts = DateTime(355, 18, 0) => ~ret.day)

\* An hour inside the window with the sun below the horizon is night.
C2_Witness ==
    /\ ClassifierReturned
    /\ args.Rn <= 0
    /\ args.ts.k = "dt"
    /\ args.lat.k = "fin" /\ args.lon.k = "fin" /\ args.tz.k = "fin"
    /\ HourInArgsWindow
    /\ SolarOfArgs.elev <= 0
    /\ ret.tier = 3
    /\ ~ret.day

\* C3: with Rn <= 0, a timestamp and a complete location, a fault of the solar
\* estimate never leaves the classifier: the hour window decides, and the
\* result is (start <= hour < end), which is False when the hour is nan.
C3_SolarFaultFallsToWindow ==
    (/\ pc = "done"
     /\ args.Rn <= 0
     /\ args.ts.k # "none"
     /\ HasLocation(args.lat, args.lon, args.tz)
     /\ SolarOfArgs.fault)
      => (/\ ~ret.raised
          /\ ret.tier = 4
          /\ ret.day = (args.ts.k = "dt" /\ HourInArgsWindow))

\* The estimate faults on an infinite latitude at an hour inside the window:
\* the window makes it day.
C3_Witness ==
    /\ ClassifierReturned
    /\ args.Rn <= 0
    /\ args.ts.k = "dt"
    /\ args.lat.k = "inf" /\ args.lon.k = "fin" /\ args.tz.k = "fin"
    /\ ret.solar = "fault"
    /\ HourInArgsWindow
    /\ ret.day

\* C4: with Rn <= 0, a timestamp and an incomplete location, the result is day
\* exactly when start <= hour < end; with the window (6, 20) hours 6 and 19
\* are day, hours 5 and 20 are night.
C4_WindowStartInclusiveEndExclusive ==
    (/\ pc = "done"
     /\ args.Rn <= 0
     /\ args.ts.k = "dt"
     /\ ~HasLocation(args.lat, args.lon, args.tz))
      => (/\ ~ret.raised
          /\ ret.tier = 4
          /\ ret.day = HourInArgsWindow
          /\ args.win = <<6, 20>> =>
                (/\ args.ts.hour \in {6, 19} => ret.day
                 /\ args.ts.hour \in {5, 20} => ~ret.day))

\* Hour 20 with the window (6, 20) and no longitude: night.
C4_Witness ==
    /\ ClassifierReturned
    /\ args.Rn <= 0
    /\ args.ts.k = "dt" /\ args.ts.hour = 20
    /\ args.win = <<6, 20>>
    /\ args.lat.k = "fin" /\ args.lon.k = "none"
    /\ ret.tier = 4
    /\ ~ret.day

----------------------------------------------------------------------------
(* Properties of the hourly calculator, checked under SpecRow *)

\* The table of the specification, section 4.3, in the units of coefficients.
TableEntry(reference, day) ==
    IF reference = "short" /\ day THEN <<37, 24, 10>>
    ELSE IF reference = "short" THEN <<37, 96, 50>>
    ELSE IF day THEN <<66, 25, 4>>
    ELSE <<66, 170, 20>>

\* C5: with an explicit is_daytime no tier of the classifier is evaluated and
\* the coefficients are those of that boolean, for every Rn, timestamp,
\* location and window.
C5_ExplicitDaytimeBypassesTiers ==
    (pc = "done" /\ args.is_daytime.k = "bool")
      => (/\ ret.cls.tier = 0
          /\ ret.cls.solar = "skipped"
          /\ ret.cls.day = args.is_daytime.b
          /\ args.reference \in {"short", "tall"} =>
                ret.coef = TableEntry(args.reference, args.is_daytime.b))

\* is_daytime = False with Rn > 0 selects the night coefficients of "short".
C5_Witness ==
    /\ pc = "done"
    /\ args.is_daytime = Bool(FALSE)
    /\ args.Rn > 0
    /\ args.reference = "short"
    /\ ret.coef = <<37, 96, 50>>

\* C6 (as claimed): the lookup is exact for the four (surface, daytime) pairs
\* and returns no coefficient triple for any other reference surface.
C6_LookupExactOrFailsLoudly ==
    pc = "done" =>
      (/\ args.reference \in {"short", "tall"} =>
             ret.coef = TableEntry(args.reference, ret.cls.day)
       /\ args.reference \notin {"short", "tall"} => ret.coef = << >>)

\* C7: a value returned by the hourly calculator is >= 0: it is 0 when the
\* value before the clamp is negative and that value otherwise.
C7_ResultNeverNegative ==
    (pc = "done" /\ ~ret.raised)
      => (/\ ret.et0 >= 0
          /\ ret.raw < 0 => ret.et0 = 0
          /\ ret.raw >= 0 => ret.et0 = ret.raw)

\* A night hour with es < ea and Rn < 0: the raw value is negative, 0 is
\* returned.
C7_Witness ==
    /\ pc = "done"
    /\ ~ret.raised
    /\ ~ret.cls.day
    /\ args.es < args.ea
    /\ args.Rn < 0
    /\ ret.raw < 0
    /\ ret.et0 = 0

----------------------------------------------------------------------------
(* Properties of the batch run, checked under SpecBatch *)

\* The outcome of the hourly calculator on the fields of one input row and
\* the configuration of the run.
OwnOutcome(r) ==
    eto_hourly_fao56_asce_row(
        (r.met.Rn_Wm2 * 36) \div 1000, r.met.T_C, r.met.U2_ms, r.met.es_kPa,
        r.met.ea_kPa, r.met.Delta_kPa_per_C, r.met.gamma_kPa_per_C,
        args.reference, NoBool, r.ts, args.loc.lat, args.loc.lon, args.loc.tz,
        args.win)

BatchEnded == pc \in {"returned", "raised"}

DatesOfInput == {args.df[i].ts.doy : i \in 1..Len(args.df)}

\* C8 (as claimed): at the end of a batch run every record whose denominator
\* is not zero has its hourly result in the output, whatever the other
\* records are.
C8_DegenerateRecordDoesNotAbortOthers ==
    BatchEnded =>
      \A i \in 1..Len(args.df) :
         ~OwnOutcome(args.df[i]).raised =>
            (/\ Len(LocalFrame.hourly) >= i
             /\ LocalFrame.hourly[i] = OwnOutcome(args.df[i]).et0)

\* C9 (as claimed): the daily output has an entry for a date exactly when at
\* least one hourly record falls on that date, and the entry is the sum of
\* that date's hourly values.
C9_DailyHasExactlyTheRecordedDates ==
    pc = "returned" =>
      (/\ DOMAIN daily = DatesOfInput
       /\ \A d \in DOMAIN daily :
             daily[d] = SumOnDay(args.df, LocalFrame.hourly, d, Len(args.df)))

\* C10: every record evaluated in a batch gets the classification and the
\* hourly value that its own fields and the run's configuration determine,
\* whatever its position and the other records are; equal records get equal
\* results; the caller's frame is never modified, and the returned frame
\* holds the caller's rows with each row's own value.
C10_RecordsEvaluatedIndependently ==
    /\ \A i \in 1..Len(vals) : vals[i] = OwnOutcome(args.df[i])
    /\ \A i, j \in 1..Len(vals) : args.df[i] = args.df[j] => vals[i] = vals[j]
    /\ df.obj[1] = Frame(args.df)
    /\ pc = "returned" =>
          (/\ LocalFrame.rows = args.df
           /\ Len(LocalFrame.hourly) = Len(args.df)
           /\ \A i \in 1..Len(args.df) :
                 LocalFrame.hourly[i] = OwnOutcome(args.df[i]).et0)

\* A returned batch of three records, the first and third equal and classified
\* by the solar tier, the second classified differently.
C10_Witness ==
    /\ pc = "returned"
    /\ Len(vals) = 3
    /\ args.df[1] = args.df[3]
    /\ args.df[2] # args.df[1]
    /\ vals[1] = vals[3]
    /\ vals[1].cls.tier = 3
    /\ vals[2].cls.day # vals[1].cls.day
    /\ vals[2].et0 # vals[1].et0

====
